---- MODULE Spec2Model ----
(***************************************************************************)
(* A model of two subsystems of the indexer runtime:                       *)
(*   - the serial block dispatcher (BlockDispatcher): height queue, fetch  *)
(*     loop, ordered process queue, flush and shutdown;                     *)
(*   - the cached entity model (CachedModel): set/remove caches and the    *)
(*     flush of pending versions to the database.                          *)
(* History variables (indexed, enqueued, gen, ...) record what happened;   *)
(* no action of the program reads them.                                    *)
(***************************************************************************)
EXTENDS Integers, Sequences, FiniteSets, TLC

\* ---------------------------------------------------------------- bounds
\* nodeConfig.batchSize: a configuration value.
BatchSize == 1
\* Heights offered by the upstream loader are 1..MaxHeight.
MaxHeight == 4
\* Number of flushQueue calls in one run.
MaxFlush == 1
\* Block heights seen by the entity cache are 1..MaxBlock.
MaxBlock == 2
\* Number of set and remove calls on the entity cache in one run.
MaxWrites == 4
\* Highest total the increment key is driven to.
MaxCount == 7

\* ------------------------------------------------------------- constants
\* new Queue(batchSize * 3), new AutoQueue(batchSize * 3)
CapacityFactor == 3

Capacity == BatchSize * CapacityFactor

\* ------------------------------------------------------------- variables
VARIABLES
  queue,                 \* this.queue: heights waiting to be fetched
  latestBufferedHeight,  \* this._latestBufferedHeight
  latestProcessedHeight, \* this.latestProcessedHeight
  fetching,              \* this.fetching
  isShutdown,            \* this.isShutdown
  pc,                    \* where fetchBlocksFromQueue is suspended
  blockNums,             \* const blockNums of the iteration in flight
  bufferedHeight,        \* const bufferedHeight of the iteration in flight
  pqTasks,               \* processQueue: tasks submitted and not started
  pqRunning,             \* processQueue: tasks in progress
  pqAbort,               \* processQueue: abort() was called
  exited,                \* the process has terminated
  unhandled,             \* a task's rejection reached nobody
  \* history variables
  indexed,               \* indexBlock invocations since the last flushQueue, in order
  enqueued,              \* heights admitted since the last flushQueue, in order
  gen,                   \* number of flushQueue calls so far
  lastFlush,             \* argument of the last flushQueue
  failedAt,              \* Len(indexed) + 1 when a task first failed outside shutdown
  \* CachedModel
  historical,            \* constructor argument
  setCache,              \* id -> SetValueModel: the versions pending for the id
  removeCache,           \* id -> removedAtBlock, 0 when the id has no entry
  getCache,              \* id -> entry of the recency map
  flushableRecordCounter,
  blockHeight,           \* height of the block being indexed
  db,                    \* rows of the entity table
  pendingOps,            \* database operations issued by flush, not completed
  flushes,               \* number of flush calls so far
  \* history variables
  writes,                \* number of set and remove calls so far
  expectedDb,            \* rows the last flush is to leave, computed when issued
  firstSet,              \* id -> height of the first set of the id, 0 when none
  removedEver,           \* id -> remove was called for the id
  lastSet,               \* id -> value of the last set when no remove followed, else 0
  lastCall,              \* the last read or bulk call: its name, what it returned, whether it threw,
                         \* and the limit of the query it sent to the database (0: no query)
  \* CacheMetadataModel, one instance per process sharing the metadata table
  metaSetCache,          \* process -> this.setCache[key] of the increment key
  metaFlight,            \* process -> flush is awaiting its database operations
  metaDb,                \* value stored for the increment key
  metaPending,           \* atomic adds issued by flush, not completed
  metaKeySet,            \* process -> this.setCache[key] of a key that is not an increment key
  metaKeyGet,            \* process -> this.getCache[key] of that key
  metaCounter,           \* process -> flushableRecordCounter
  metaKeyDb,             \* the row of that key in the metadata table
  metaKeyPending,        \* bulkCreate operations issued by flush, not completed
  metaKeyLast,           \* history: process -> value of its last set(key, value)
  metaFound,             \* history: what the last find(key) returned
  \* history variable
  metaExpected           \* value stored at the start plus every amount passed to setIncrement

dispVars == <<queue, latestBufferedHeight, latestProcessedHeight, fetching,
              isShutdown, pc, blockNums, bufferedHeight, pqTasks, pqRunning,
              pqAbort, exited, unhandled>>
histVars == <<indexed, enqueued, gen, lastFlush, failedAt>>
keyVars == <<metaKeySet, metaKeyGet, metaCounter, metaKeyDb, metaKeyPending,
             metaKeyLast, metaFound>>
metaVars == <<metaSetCache, metaFlight, metaDb, metaPending, metaExpected,
              keyVars>>
entityVars == <<historical, setCache, removeCache, getCache,
                flushableRecordCounter, blockHeight, db, pendingOps,
                flushes, writes, expectedDb, firstSet, removedEver, lastSet,
                lastCall>>
cacheVars == <<entityVars, metaVars>>
vars == <<dispVars, histVars, cacheVars>>

\* ------------------------------------------------------------- helpers
Min2(a, b) == IF a <= b THEN a ELSE b

Last(s) == s[Len(s)]

\* Math.min(...blockNums)
MinHeight(items) ==
  CHOOSE m \in {items[i].h : i \in 1..Len(items)} :
    \A i \in 1..Len(items) : m <= items[i].h

\* The strictly increasing sequence of the heights of a set.
RECURSIVE SortedSeq(_)
SortedSeq(S) ==
  IF S = {} THEN <<>>
  ELSE LET m == CHOOSE x \in S : \A y \in S : x <= y
       IN <<m>> \o SortedSeq(S \ {m})

Heights(items) == [i \in 1..Len(items) |-> items[i].h]

IsPrefix(s, t) == Len(s) <= Len(t) /\ \A i \in 1..Len(s) : s[i] = t[i]

\* Queue.takeMany(n): up to n items from the head, without waiting.
TakeMany(q, n) == SubSeq(q, 1, Min2(n, Len(q)))
DropMany(q, n) == SubSeq(q, Min2(n, Len(q)) + 1, Len(q))

\* Queue.freeSpace, AutoQueue.freeSpace
FreeSpace(q) == Capacity - Len(q)

\* ---------------------------------------------------------------- Init
DispInit ==
  /\ queue = <<>>
  /\ latestBufferedHeight = 0
  /\ latestProcessedHeight = 0
  /\ fetching = FALSE
  /\ isShutdown = FALSE
  /\ pc = "idle"
  /\ blockNums = <<>>
  /\ bufferedHeight = 0
  /\ pqTasks = <<>>
  /\ pqRunning = {}
  /\ pqAbort = FALSE
  /\ exited = FALSE
  /\ unhandled = FALSE
  /\ indexed = <<>>
  /\ enqueued = <<>>
  /\ gen = 0
  /\ lastFlush = 0
  /\ failedAt = 0

\* Entity ids and the values of the entity's data field.
Ids == {"a", "b"}
Values == {1, 2}

\* The open upper bound of a block range: above every height.
Infinity == MaxBlock + 1

\* Entries of getCache: no entry, an entry holding a value, or an entry
\* holding no value (the row was absent when it was looked up).
NoEntry == [k |-> "none", v |-> 0]
Entry(v) == [k |-> "value", v |-> v]
Null == [k |-> "null", v |-> 0]

\* No read or bulk call was made yet.
NoCall == [op |-> "none", ret |-> <<>>, threw |-> FALSE, dbLimit |-> 0]

CacheInit ==
  /\ historical \in BOOLEAN
  /\ setCache = [i \in Ids |-> <<>>]
  /\ removeCache = [i \in Ids |-> 0]
  /\ getCache = [i \in Ids |-> NoEntry]
  /\ flushableRecordCounter = 0
  /\ blockHeight = 1
  /\ db = {}
  /\ pendingOps = {}
  /\ flushes = 0
  /\ writes = 0
  /\ expectedDb = {}
  /\ firstSet = [i \in Ids |-> 0]
  /\ removedEver = [i \in Ids |-> FALSE]
  /\ lastSet = [i \in Ids |-> 0]
  /\ lastCall = NoCall

\* Processes that share the metadata table.
Procs == {"p1", "p2"}
\* Amounts passed to setIncrement.
Amounts == 0..2
\* Values passed to set(key, value); 0 stands for the values JavaScript takes
\* as false: 0, false, the empty string.
MetaValues == 0..2
\* Values the increment key holds when the processes start.
Priors == {3}

MetaInit ==
  /\ metaSetCache = [p \in Procs |-> NoEntry]
  /\ metaFlight = [p \in Procs |-> FALSE]
  /\ metaDb \in Priors
  /\ metaPending = {}
  /\ metaExpected = metaDb
  /\ metaKeySet = [p \in Procs |-> NoEntry]
  /\ metaKeyGet = [p \in Procs |-> NoEntry]
  /\ metaCounter = [p \in Procs |-> 0]
  /\ metaKeyDb = NoEntry
  /\ metaKeyPending = {}
  /\ metaKeyLast = [p \in Procs |-> NoEntry]
  /\ metaFound = NoEntry

Init == DispInit /\ CacheInit /\ MetaInit

\* The dispatcher on its own: the entity cache stays as constructed.
InitDispatcher == Init /\ historical

\* ------------------------------------------------------ the fetch loop
\* Variant of LoopGuard: the loop condition never looks at isShutdown.
LoopGuardAlways == TRUE

\* while (!this.isShutdown)
LoopGuard == ~isShutdown

\* Variant of ExitLoop: the finally block does not reset the flag.
ExitLoopKeepsFlag(q) ==
  /\ queue' = q
  /\ pc' = "idle"
  /\ fetching' = fetching
  /\ blockNums' = <<>>
  /\ bufferedHeight' = 0

\* Leaving the loop: break or a false loop condition, then finally.
ExitLoop(q) ==
  /\ queue' = q
  /\ pc' = "idle"
  /\ fetching' = FALSE
  /\ blockNums' = <<>>
  /\ bufferedHeight' = 0

\* Variant of TakeCount: the free space of the process queue is not looked at.
TakeCountBatchOnly(pq) == BatchSize

\* Math.min(this.nodeConfig.batchSize, this.processQueue.freeSpace)
TakeCount(pq) == Min2(BatchSize, FreeSpace(pq))

\* One pass from the loop condition to the next await (or out of the loop),
\* on height queue q, buffered watermark lb and process-queue backlog pq.
LoopTop(q, lb, pq) ==
  IF ~LoopGuard THEN ExitLoop(q)
  ELSE LET n == TakeCount(pq)
           taken == TakeMany(q, n)
       IN IF taken = <<>>
          THEN IF q # <<>>
               THEN /\ queue' = q
                    /\ pc' = "delay"
                    /\ fetching' = TRUE
                    /\ blockNums' = <<>>
                    /\ bufferedHeight' = 0
               ELSE ExitLoop(q)
          ELSE /\ queue' = DropMany(q, n)
               /\ pc' = "fetch"
               /\ fetching' = TRUE
               /\ blockNums' = taken
               /\ bufferedHeight' = lb

\* Variant of FetchGuard: the flag is not looked at.
FetchGuardShutdownOnly == isShutdown

\* if (this.fetching || this.isShutdown) return;
FetchGuard == fetching \/ isShutdown

\* enqueueBlocks(cleanedBlocks, latestBufferHeight?)
EnqueueBlocks(blocks, hasLbh, lbh) ==
  /\ ~exited
  /\ IF hasLbh /\ lbh # 0 /\ blocks = <<>>
     THEN /\ latestBufferedHeight' = lbh
          /\ UNCHANGED <<queue, pc, fetching, blockNums, bufferedHeight>>
     ELSE LET items == [i \in 1..Len(blocks) |-> [h |-> blocks[i], g |-> gen]]
              q == queue \o items
              lb == IF hasLbh THEN lbh ELSE Last(blocks)
          IN /\ latestBufferedHeight' = lb
             /\ IF FetchGuard
                THEN /\ queue' = q
                     /\ UNCHANGED <<pc, fetching, blockNums, bufferedHeight>>
                ELSE LoopTop(q, lb, pqTasks)
  /\ enqueued' = enqueued \o blocks
  /\ UNCHANGED <<latestProcessedHeight, isShutdown, pqTasks, pqRunning, pqAbort,
                 exited, unhandled, indexed, gen, lastFlush, failedAt, cacheVars>>

\* Variant of Stale: >= in place of > in the watermark comparison.
StaleOnEqual ==
  \/ bufferedHeight >= latestBufferedHeight
  \/ (queue # <<>> /\ queue[1].h < MinHeight(blockNums))

\* Variant of Stale: the watermark comparison is dropped.
StalePeekOnly == queue # <<>> /\ queue[1].h < MinHeight(blockNums)

\* The staleness check after fetchBlocksBatches resolves.
Stale ==
  \/ bufferedHeight > latestBufferedHeight
  \/ (queue # <<>> /\ queue[1].h < MinHeight(blockNums))

\* blocks.map((block) => async () => {...}): one task per block, in order.
BlockTasks(blocks) == blocks

\* await this.fetchBlocksBatches(blockNums) resolves.
FetchResolve ==
  /\ ~exited
  /\ pc = "fetch"
  /\ IF Stale
     THEN /\ LoopTop(queue, latestBufferedHeight, pqTasks)
          /\ UNCHANGED pqTasks
     ELSE IF isShutdown
          THEN /\ ExitLoop(queue)
               /\ UNCHANGED pqTasks
          ELSE LET pq == pqTasks \o BlockTasks(blockNums)
               IN /\ pqTasks' = pq
                  /\ LoopTop(queue, latestBufferedHeight, pq)
  /\ UNCHANGED <<latestBufferedHeight, latestProcessedHeight, isShutdown,
                 pqRunning, pqAbort, exited, unhandled, histVars, cacheVars>>

\* await this.fetchBlocksBatches(blockNums) rejects: catch and finally.
FetchFail ==
  /\ ~exited
  /\ pc = "fetch"
  /\ exited' = ~isShutdown
  /\ ExitLoop(queue)
  /\ UNCHANGED <<latestBufferedHeight, latestProcessedHeight, isShutdown,
                 pqTasks, pqRunning, pqAbort, unhandled, histVars, cacheVars>>

\* await delay(1) resolves; continue.
DelayDone ==
  /\ ~exited
  /\ pc = "delay"
  /\ LoopTop(queue, latestBufferedHeight, pqTasks)
  /\ UNCHANGED <<latestBufferedHeight, latestProcessedHeight, isShutdown,
                 pqTasks, pqRunning, pqAbort, exited, unhandled, histVars, cacheVars>>

\* BaseBlockDispatcher.flushQueue(height): truncate the height queue and set
\* latestBufferedHeight = height.
BaseFlushQueue(height) ==
  /\ latestBufferedHeight' = height
  /\ queue' = <<>>

\* AutoQueue.flush(): the tasks not yet started are discarded.
ProcessQueueFlush == pqTasks' = <<>>

\* AutoQueue.abort(): no further task starts, the queued ones are discarded.
ProcessQueueAbort ==
  /\ pqAbort' = TRUE
  /\ pqTasks' = <<>>

\* flushQueue(height)
FlushQueue(height) ==
  /\ ~exited
  /\ gen < MaxFlush
  /\ BaseFlushQueue(height)
  /\ ProcessQueueFlush
  /\ gen' = gen + 1
  /\ enqueued' = <<>>
  /\ indexed' = <<>>
  /\ lastFlush' = height
  /\ UNCHANGED <<latestProcessedHeight, fetching, isShutdown, pc, blockNums,
                 bufferedHeight, pqRunning, pqAbort, exited, unhandled,
                 failedAt, cacheVars>>

\* onApplicationShutdown()
OnApplicationShutdown ==
  /\ ~exited
  /\ ~isShutdown
  /\ isShutdown' = TRUE
  /\ ProcessQueueAbort
  /\ UNCHANGED <<queue, latestBufferedHeight, latestProcessedHeight, fetching,
                 pc, blockNums, bufferedHeight, pqRunning, exited, unhandled,
                 histVars, cacheVars>>

\* ------------------------------------------------------ the process queue
\* Variant of Concurrency: the runner is built with two slots.
ConcurrencyTwo == 1 + 1

\* new AutoQueue(nodeConfig.batchSize * 3): no concurrency argument.
Concurrency == 1

\* A block enqueued before the last flushQueue, above the flush height, that
\* the enqueueBlocks calls made since do not hold.
IsStale(t) ==
  /\ t.g < gen
  /\ t.h > lastFlush
  /\ enqueued # <<>>
  /\ t.h \notin {enqueued[i] : i \in 1..Len(enqueued)}

\* AutoQueue: the next task may start, in submission order, while fewer than
\* Concurrency tasks are in progress and the queue was not aborted.
RunnerMayStart ==
  /\ ~pqAbort
  /\ pqTasks # <<>>
  /\ Cardinality(pqRunning) < Concurrency

\* BaseBlockDispatcher.preProcessBlock(height) passes its assertion.
PreProcessBlockOk(height) == height > latestProcessedHeight

\* BaseBlockDispatcher.postProcessBlock(height, response) advances the
\* processed watermark.
PostProcessBlock(height) == latestProcessedHeight' = height

\* The runner starts the next task: preProcessBlock(height), then indexBlock(block).
TaskStart ==
  /\ ~exited
  /\ RunnerMayStart
  /\ LET t == Head(pqTasks)
     IN /\ pqTasks' = Tail(pqTasks)
        /\ IF PreProcessBlockOk(t.h)
           THEN /\ pqRunning' = pqRunning \cup {t}
                /\ indexed' = Append(indexed, [h |-> t.h, stale |-> IsStale(t)])
                /\ UNCHANGED <<unhandled, failedAt>>
           ELSE \* preProcessBlock throws; not shutting down: throw e
                /\ unhandled' = TRUE
                /\ failedAt' = IF failedAt = 0 THEN Len(indexed) + 1 ELSE failedAt
                /\ UNCHANGED <<pqRunning, indexed>>
  /\ UNCHANGED <<queue, latestBufferedHeight, latestProcessedHeight, fetching,
                 isShutdown, pc, blockNums, bufferedHeight, pqAbort, exited,
                 enqueued, gen, lastFlush, cacheVars>>

\* indexBlock and postProcessBlock complete for a running task.
TaskDone(t) ==
  /\ ~exited
  /\ t \in pqRunning
  /\ pqRunning' = pqRunning \ {t}
  /\ PostProcessBlock(t.h)
  /\ UNCHANGED <<queue, latestBufferedHeight, fetching, isShutdown, pc,
                 blockNums, bufferedHeight, pqTasks, pqAbort, exited, unhandled,
                 histVars, cacheVars>>

\* indexBlock or postProcessBlock throws for a running task: the catch block.
TaskFail(t) ==
  /\ ~exited
  /\ t \in pqRunning
  /\ pqRunning' = pqRunning \ {t}
  /\ IF isShutdown
     THEN UNCHANGED <<unhandled, failedAt>>
     ELSE /\ unhandled' = TRUE
          /\ failedAt' = IF failedAt = 0 THEN Len(indexed) + 1 ELSE failedAt
  /\ UNCHANGED <<queue, latestBufferedHeight, latestProcessedHeight, fetching,
                 isShutdown, pc, blockNums, bufferedHeight, pqTasks, pqAbort,
                 exited, indexed, enqueued, gen, lastFlush, cacheVars>>

\* The host reacts to the rejection nobody handles by ending the process.
UnhandledRejectionExit ==
  /\ ~exited
  /\ unhandled
  /\ exited' = TRUE
  /\ UNCHANGED <<queue, latestBufferedHeight, latestProcessedHeight, fetching,
                 isShutdown, pc, blockNums, bufferedHeight, pqTasks, pqRunning,
                 pqAbort, unhandled, histVars, cacheVars>>

\* ------------------------------------------------------ the upstream loader
\* The loader offers heights above the buffered watermark, within the free
\* space of the height queue, and a watermark argument not below the last one.
Offers ==
  {SortedSeq(S) : S \in {T \in SUBSET ((latestBufferedHeight + 1)..MaxHeight) :
                           T # {} /\ Cardinality(T) <= FreeSpace(queue)}}

Enqueue ==
  \/ \E blocks \in Offers : EnqueueBlocks(blocks, FALSE, 0)
  \/ \E blocks \in Offers : \E lbh \in Last(blocks)..MaxHeight :
       EnqueueBlocks(blocks, TRUE, lbh)
  \/ \E lbh \in (latestBufferedHeight + 1)..MaxHeight :
       EnqueueBlocks(<<>>, TRUE, lbh)

\* -------------------------------------------------------- specifications
\* No flushQueue, no shutdown, no fetch or handler failure.
NextOrdered ==
  \/ Enqueue
  \/ FetchResolve
  \/ DelayDone
  \/ TaskStart
  \/ \E t \in pqRunning : TaskDone(t)

SpecOrdered == InitDispatcher /\ [][NextOrdered]_vars

FairSpecOrdered ==
  /\ SpecOrdered
  /\ WF_vars(FetchResolve)
  /\ WF_vars(DelayDone)
  /\ WF_vars(TaskStart)
  /\ WF_vars(\E t \in pqRunning : TaskDone(t))

NextFlush ==
  \/ Enqueue
  \/ FetchResolve
  \/ DelayDone
  \/ \E h \in 0..(MaxHeight - 1) : FlushQueue(h)
  \/ TaskStart
  \/ \E t \in pqRunning : TaskDone(t)

SpecFlush == InitDispatcher /\ [][NextFlush]_vars

NextShutdown ==
  \/ Enqueue
  \/ FetchResolve
  \/ FetchFail
  \/ DelayDone
  \/ OnApplicationShutdown
  \/ TaskStart
  \/ \E t \in pqRunning : TaskDone(t)
  \/ \E t \in pqRunning : TaskFail(t)
  \/ UnhandledRejectionExit

SpecShutdown == InitDispatcher /\ [][NextShutdown]_vars

\* ------------------------------------------------------ SetValueModel
\* One version of an entity: endHeight = Infinity while the version is open.
Version(v, h) == [v |-> v, startHeight |-> h, endHeight |-> Infinity]

HasOpen(m) == m # <<>> /\ Last(m).endHeight = Infinity

\* SetValueModel.set(data, blockHeight)
SvmSet(m, v, h) ==
  IF HasOpen(m)
  THEN IF Last(m).startHeight = h
       THEN [m EXCEPT ![Len(m)].v = v]
       ELSE Append([m EXCEPT ![Len(m)].endHeight = h], Version(v, h))
  ELSE Append(m, Version(v, h))

\* SetValueModel.markAsRemoved(blockHeight)
SvmMarkAsRemoved(m, h) ==
  IF HasOpen(m) THEN [m EXCEPT ![Len(m)].endHeight = h] ELSE m

\* SetValueModel.getFirst(), getLatest()
SvmGetFirst(m) == m[1]
SvmGetLatest(m) == Last(m)

\* ------------------------------------------------------ the entity table
\* A row: [rid, id, v, lo, hi] with block range [lo, hi); hi = Infinity for an
\* unbounded range. Without historical mode lo = 0 and hi = Infinity.
Contains(r, h) == r.lo <= h /\ h < r.hi

RowsOf(rows, id) == {r \in rows : r.id = id}

Op(type, id, h, rows, ids) ==
  [type |-> type, id |-> id, h |-> h, rows |-> rows, ids |-> ids]

\* Variant of CloseWhere: the range is tested against blockHeight itself.
CloseWhereAtHeight(r, id, h) == r.id = id /\ Contains(r, h)

\* where: {id, __block_range: {[Op.contains]: blockHeight - 1}}
CloseWhere(r, id, h) == r.id = id /\ Contains(r, h - 1)

\* What one database operation does to the rows of the table.
ApplyOp(rows, op) ==
  CASE op.type = "update" ->
         {IF CloseWhere(r, op.id, op.h) THEN [r EXCEPT !.hi = op.h] ELSE r :
            r \in rows}
    [] op.type = "insert" -> rows \cup op.rows
    [] op.type = "upsert" ->
         {r \in rows : \A n \in op.rows : n.id # r.id} \cup op.rows
    [] op.type = "destroy" -> {r \in rows : r.id \notin op.ids}

\* Historical queries intersect the height being indexed with the range.
TipFilter(r) == historical => Contains(r, blockHeight)

\* this.model.findOne({where: {id}}): 0 stands for no row; any matching row
\* may be the one returned.
FindOne(id) ==
  LET m == {r \in RowsOf(db, id) : TipFilter(r)}
  IN IF m = {} THEN {0} ELSE {r.v : r \in m}

\* get(id) on a cache just constructed: nothing removed, nothing cached.
GetFresh(id) == FindOne(id)

\* ------------------------------------------------------ CachedModel
\* What set touches: the two caches and the counter, with the history kept
\* of the sets.
SetState ==
  [setCache |-> setCache, getCache |-> getCache,
   counter |-> flushableRecordCounter, firstSet |-> firstSet,
   lastSet |-> lastSet]

\* The body of set(id, data, blockHeight), applied to c.
SetOn(c, id, v, h) ==
  [c EXCEPT !.setCache[id] = SvmSet(@, v, h),
            !.getCache[id] = Entry(v),
            !.counter = @ + 1,
            !.firstSet[id] = IF @ = 0 THEN h ELSE @,
            !.lastSet[id] = v]

\* set(id, data, blockHeight)
Set(id, v) ==
  /\ writes < MaxWrites
  /\ writes' = writes + 1
  /\ LET c == SetOn(SetState, id, v, blockHeight)
     IN /\ setCache' = c.setCache
        /\ getCache' = c.getCache
        /\ flushableRecordCounter' = c.counter
        /\ firstSet' = c.firstSet
        /\ lastSet' = c.lastSet
  /\ UNCHANGED <<historical, removeCache, blockHeight, db, pendingOps, flushes,
                 expectedDb, removedEver, dispVars, histVars, lastCall,
                 metaVars>>

\* Variant of SetEach: the entities are set from the last to the first.
RECURSIVE SetEachBackwards(_, _, _)
SetEachBackwards(c, data, h) ==
  IF data = <<>> THEN c
  ELSE SetEachBackwards(SetOn(c, data[Len(data)].id, data[Len(data)].v, h),
                        SubSeq(data, 1, Len(data) - 1), h)

\* for (const entity of data) this.set(entity.id, entity, blockHeight)
RECURSIVE SetEach(_, _, _)
SetEach(c, data, h) ==
  IF data = <<>> THEN c
  ELSE SetEach(SetOn(c, data[1].id, data[1].v, h), Tail(data), h)

\* Lists of entities passed to bulkUpdate.
DataLists ==
  LET E == {[id |-> i, v |-> v] : i \in Ids, v \in Values}
  IN {<<>>} \cup {<<e>> : e \in E} \cup {<<e, f>> : e \in E, f \in E}

\* bulkUpdate(data, blockHeight, fields): the sets, then the throw.
BulkUpdate(data, hasFields) ==
  /\ writes + Len(data) <= MaxWrites
  /\ writes' = writes + Len(data)
  /\ LET c == SetEach(SetState, data, blockHeight)
     IN /\ setCache' = c.setCache
        /\ getCache' = c.getCache
        /\ flushableRecordCounter' = c.counter
        /\ firstSet' = c.firstSet
        /\ lastSet' = c.lastSet
  /\ lastCall' = [op |-> "bulkUpdate", ret |-> data, threw |-> hasFields,
                  dbLimit |-> 0]
  /\ UNCHANGED <<historical, removeCache, blockHeight, db, pendingOps, flushes,
                 expectedDb, removedEver, dispVars, histVars, metaVars>>

\* Variant of Remove: the removal is recorded whether or not the id already
\* has an entry in removeCache.
RemoveAlways(id) ==
  /\ writes < MaxWrites
  /\ writes' = writes + 1
  /\ removeCache' = [removeCache EXCEPT ![id] = blockHeight]
  /\ flushableRecordCounter' = flushableRecordCounter + 1
  /\ getCache' = [getCache EXCEPT
                    ![id] = IF @.k = "value" THEN NoEntry ELSE @]
  /\ setCache' = [setCache EXCEPT ![id] = SvmMarkAsRemoved(@, blockHeight)]
  /\ removedEver' = [removedEver EXCEPT ![id] = TRUE]
  /\ lastSet' = [lastSet EXCEPT ![id] = 0]
  /\ UNCHANGED <<historical, blockHeight, db, pendingOps, flushes, expectedDb,
                 firstSet, dispVars, histVars, lastCall,
                 metaVars>>

\* remove(id, blockHeight)
Remove(id) ==
  /\ writes < MaxWrites
  /\ writes' = writes + 1
  /\ IF removeCache[id] = 0
     THEN /\ removeCache' = [removeCache EXCEPT ![id] = blockHeight]
          /\ flushableRecordCounter' = flushableRecordCounter + 1
          /\ getCache' = [getCache EXCEPT
                            ![id] = IF @.k = "value" THEN NoEntry ELSE @]
          /\ setCache' = [setCache EXCEPT ![id] = SvmMarkAsRemoved(@, blockHeight)]
     ELSE UNCHANGED <<removeCache, flushableRecordCounter, getCache, setCache>>
  /\ removedEver' = [removedEver EXCEPT ![id] = TRUE]
  /\ lastSet' = [lastSet EXCEPT ![id] = 0]
  /\ UNCHANGED <<historical, blockHeight, db, pendingOps, flushes, expectedDb,
                 firstSet, dispVars, histVars, lastCall,
                 metaVars>>

\* get isFlushable()
IsFlushable == \E i \in Ids : setCache[i] # <<>>

\* flush, historical: every version of every SetValueModel as a row.
HistoricalRecords ==
  UNION {{[rid |-> <<flushes, k>>, id |-> i, v |-> setCache[i][k].v,
           lo |-> setCache[i][k].startHeight,
           hi |-> setCache[i][k].endHeight] : k \in 1..Len(setCache[i])} :
         i \in Ids}

\* flush, not historical: the latest data of every SetValueModel.
LatestRecords ==
  {[rid |-> <<0, 0>>, id |-> i, v |-> SvmGetLatest(setCache[i]).v,
    lo |-> 0, hi |-> Infinity] : i \in {j \in Ids : setCache[j] # <<>>}}

\* historicalMarkPreviousHeightRecordsBatch: one update per entry of setRecords
\* and per entry of removeRecords.
CloseOps ==
  {Op("update", i, SvmGetFirst(setCache[i]).startHeight, {}, {}) :
     i \in {j \in Ids : setCache[j] # <<>>}}
  \cup {Op("update", i, removeCache[i], {}, {}) :
          i \in {j \in Ids : removeCache[j] # 0}}

\* The rows a historical flush is to leave: each row present when the flush
\* is issued, closed at the lowest of its id's close heights (the start of the
\* first pending version, removedAtBlock) whose predecessor height lies in the
\* row's range, together with one row per pending version.
ExpectedAfterFlush ==
  LET closeHeights(i) ==
        (IF setCache[i] # <<>> THEN {setCache[i][1].startHeight} ELSE {})
        \cup (IF removeCache[i] # 0 THEN {removeCache[i]} ELSE {})
      hits(r) == {h \in closeHeights(r.id) : r.lo <= h - 1 /\ h - 1 < r.hi}
      lowest(S) == CHOOSE x \in S : \A y \in S : x <= y
      closed(r) == IF hits(r) = {} THEN r ELSE [r EXCEPT !.hi = lowest(hits(r))]
  IN {closed(r) : r \in db} \cup HistoricalRecords

\* flush(tx): issue the database operations, then clear().
Flush ==
  /\ IsFlushable
  /\ pendingOps = {}
  /\ pendingOps' =
       IF historical
       THEN CloseOps \cup {Op("insert", "", 0, HistoricalRecords, {})}
       ELSE {Op("upsert", "", 0, LatestRecords, {}),
             Op("destroy", "", 0, {}, {i \in Ids : removeCache[i] # 0})}
  /\ setCache' = [i \in Ids |-> <<>>]
  /\ removeCache' = [i \in Ids |-> 0]
  /\ flushableRecordCounter' = 0
  /\ flushes' = flushes + 1
  /\ expectedDb' = IF historical THEN ExpectedAfterFlush ELSE {}
  /\ UNCHANGED <<historical, getCache, blockHeight, db, firstSet, removedEver,
                 lastSet, writes, dispVars, histVars, lastCall,
                 metaVars>>

\* Variant of DbComplete: the caches are cleared when the last operation has
\* completed instead of when the operations were issued.
DbCompleteThenClear(op) ==
  /\ op \in pendingOps
  /\ db' = ApplyOp(db, op)
  /\ pendingOps' = pendingOps \ {op}
  /\ IF pendingOps = {op}
     THEN /\ setCache' = [i \in Ids |-> <<>>]
          /\ removeCache' = [i \in Ids |-> 0]
          /\ flushableRecordCounter' = 0
     ELSE UNCHANGED <<setCache, removeCache, flushableRecordCounter>>
  /\ UNCHANGED <<historical, getCache, blockHeight, flushes, expectedDb,
                 firstSet, removedEver, lastSet, writes, dispVars, histVars,
                 lastCall, metaVars>>

\* One of the operations issued by flush completes.
DbComplete(op) ==
  /\ op \in pendingOps
  /\ db' = ApplyOp(db, op)
  /\ pendingOps' = pendingOps \ {op}
  /\ UNCHANGED <<historical, setCache, removeCache, getCache,
                 flushableRecordCounter, blockHeight, flushes, expectedDb,
                 firstSet, removedEver, lastSet, writes, dispVars,
                 histVars, lastCall,
                 metaVars>>

\* The dispatcher moves on to the next block.
NextBlock ==
  /\ blockHeight < MaxBlock
  /\ blockHeight' = blockHeight + 1
  /\ UNCHANGED <<historical, setCache, removeCache, getCache,
                 flushableRecordCounter, db, pendingOps, flushes, expectedDb,
                 firstSet, removedEver, lastSet, writes, dispVars,
                 histVars, lastCall,
                 metaVars>>

\* ------------------------------------------------------ CachedModel reads
\* An entity has one field besides its id; v is the value of that field.
Entity(id, v) == [id |-> id, v |-> v]

\* The orders in which the members of a finite set can be listed.
SeqsOf(S) ==
  {q \in [1..Cardinality(S) -> S] :
     \A i, j \in 1..Cardinality(S) : q[i] = q[j] => i = j}

\* Windows of getByField.
Offsets == 0..1
Limits == 1..2

\* allCachedIds()
AllCachedIds ==
  {i \in Ids : getCache[i].k # "none"}
  \cup {i \in Ids : setCache[i] # <<>>}
  \cup {i \in Ids : removeCache[i] # 0}

\* SetValueModel.isMatchData(field, value): the latest version's field.
SvmIsMatchData(m, value) == SvmGetLatest(m).v = value

\* getFromCache, first half: ids of setCache whose model matches.
SetMatches(value) ==
  {i \in Ids : setCache[i] # <<>> /\ SvmIsMatchData(setCache[i], value)}

\* getFromCache, second half: ids of getCache not found in setCache whose
\* entry has the value.
GetMatches(value) ==
  {i \in Ids \ SetMatches(value) :
     getCache[i].k = "value" /\ getCache[i].v = value}

\* getFromCache(field, value, findOne): the lists it can return, as ids; the
\* setCache matches come first, each half in the iteration order of its map.
GetFromCache(value, findOne) ==
  IF findOne /\ SetMatches(value) # {}
  THEN SeqsOf(SetMatches(value))
  ELSE {a \o b : a \in SeqsOf(SetMatches(value)),
                 b \in SeqsOf(GetMatches(value))}

\* Rows a query where {[field]: value, id: {[Op.notIn]: allCachedIds()}} sees.
RowsByField(value) ==
  {r \in db : r.v = value /\ r.id \notin AllCachedIds /\ TipFilter(r)}

\* slice(from, to) of a list, 0-based, to exclusive.
Slice(q, from, to) == SubSeq(q, from + 1, Min2(to, Len(q)))

\* this.getCache.set(data.id, data) for every record of a list.
RECURSIVE CacheRecords(_, _)
CacheRecords(gc, recs) ==
  IF recs = <<>> THEN gc
  ELSE CacheRecords([gc EXCEPT ![recs[1].id] = Entry(recs[1].v)], Tail(recs))

\* getByField(field, value, {offset, limit})
GetByField(value, offset, limit) ==
  /\ \E ids \in GetFromCache(value, FALSE) :
       LET cached == [k \in 1..Len(ids) |-> Entity(ids[k], value)]
           n == Len(cached)
           fromCache == n >= offset + limit
           cachedData == IF n <= offset THEN <<>> ELSE Slice(cached, offset, n)
           dbLimit == IF n <= offset THEN limit
                      ELSE limit - (Len(cachedData) - offset)
       IN IF fromCache
          THEN /\ lastCall' = [op |-> "getByField",
                               ret |-> Slice(cached, offset, offset + limit),
                               threw |-> FALSE, dbLimit |-> 0]
               /\ UNCHANGED getCache
          ELSE \E rows \in SeqsOf(RowsByField(value)) :
                 LET found == Slice(rows, offset, offset + dbLimit)
                     records == [k \in 1..Len(found) |->
                                   Entity(found[k].id, found[k].v)]
                 IN /\ getCache' = CacheRecords(getCache, records)
                    /\ lastCall' = [op |-> "getByField",
                                    ret |-> cachedData \o records,
                                    threw |-> FALSE, dbLimit |-> dbLimit]
  /\ UNCHANGED <<historical, setCache, removeCache, flushableRecordCounter,
                 blockHeight, db, pendingOps, flushes, writes, expectedDb,
                 firstSet, removedEver, lastSet, dispVars, histVars,
                 metaVars>>

\* get(id): the removal is looked at first, then getCache, then the latest
\* version in setCache, then the table; what the table gave is kept in
\* getCache, an absent row included.
Get(id) ==
  /\ IF removeCache[id] # 0
     THEN /\ lastCall' = [op |-> "get", ret |-> <<>>, threw |-> FALSE,
                          dbLimit |-> 0]
          /\ UNCHANGED getCache
     ELSE IF getCache[id].k # "none"
     THEN /\ lastCall' = [op |-> "get",
                          ret |-> IF getCache[id].k = "value"
                                  THEN <<Entity(id, getCache[id].v)>>
                                  ELSE <<>>,
                          threw |-> FALSE, dbLimit |-> 0]
          /\ UNCHANGED getCache
     ELSE IF setCache[id] # <<>>
     THEN /\ lastCall' = [op |-> "get",
                          ret |-> <<Entity(id, SvmGetLatest(setCache[id]).v)>>,
                          threw |-> FALSE, dbLimit |-> 0]
          /\ UNCHANGED getCache
     ELSE \E v \in FindOne(id) :
            /\ getCache' = [getCache EXCEPT
                              ![id] = IF v = 0 THEN Null ELSE Entry(v)]
            /\ lastCall' = [op |-> "get",
                            ret |-> IF v = 0 THEN <<>> ELSE <<Entity(id, v)>>,
                            threw |-> FALSE, dbLimit |-> 1]
  /\ UNCHANGED <<historical, setCache, removeCache, flushableRecordCounter,
                 blockHeight, db, pendingOps, flushes, writes, expectedDb,
                 firstSet, removedEver, lastSet, dispVars, histVars,
                 metaVars>>

\* GetData drops an entry when its capacity or the entry's age is exceeded.
Evict(id) ==
  /\ getCache[id].k # "none"
  /\ getCache' = [getCache EXCEPT ![id] = NoEntry]
  /\ UNCHANGED <<historical, setCache, removeCache, flushableRecordCounter,
                 blockHeight, db, pendingOps, flushes, writes, expectedDb,
                 firstSet, removedEver, lastSet, lastCall, dispVars, histVars,
                 metaVars>>

\* getOneByField(field, value), field other than id
GetOneByField(value) ==
  /\ \E ids \in GetFromCache(value, TRUE) :
       IF ids # <<>>
       THEN /\ lastCall' = [op |-> "getOneByField",
                            ret |-> <<Entity(ids[1], value)>>,
                            threw |-> FALSE, dbLimit |-> 0]
            /\ UNCHANGED getCache
       ELSE IF RowsByField(value) = {}
            THEN \* record is undefined: record.id throws a TypeError
                 /\ lastCall' = [op |-> "getOneByField", ret |-> <<>>,
                                 threw |-> TRUE, dbLimit |-> 1]
                 /\ UNCHANGED getCache
            ELSE \E r \in RowsByField(value) :
                   /\ getCache' = [getCache EXCEPT ![r.id] = Entry(r.v)]
                   /\ lastCall' = [op |-> "getOneByField",
                                   ret |-> <<Entity(r.id, r.v)>>,
                                   threw |-> FALSE, dbLimit |-> 1]
  /\ UNCHANGED <<historical, setCache, removeCache, flushableRecordCounter,
                 blockHeight, db, pendingOps, flushes, writes, expectedDb,
                 firstSet, removedEver, lastSet, dispVars, histVars,
                 metaVars>>

\* ------------------------------------------------------ CacheMetadataModel
\* Only the increment key is followed; p is the process owning the instance.

\* Variant of SetIncrementValue: the amount replaces what was accumulated.
SetIncrementOverwrite(entry, amount) == Entry(amount)

\* this.setCache[key] = (this.setCache[key] ?? 0) + amount
SetIncrementValue(entry, amount) ==
  Entry((IF entry.k = "none" THEN 0 ELSE entry.v) + amount)

\* setIncrement(key, amount)
MetaSetIncrement(p, amount) ==
  /\ metaExpected + amount <= MaxCount
  /\ metaSetCache' =
       [metaSetCache EXCEPT ![p] = SetIncrementValue(@, amount)]
  /\ metaExpected' = metaExpected + amount
  /\ UNCHANGED <<metaFlight, metaDb, metaPending, keyVars, dispVars, histVars,
                 entityVars>>

\* !x of JavaScript, on an entry of setCache or getCache or a row.
Falsy(entry) == entry.k = "none" \/ entry.v = 0

\* set(key, value), key not an increment key
MetaSet(p, value) ==
  /\ metaCounter' = [metaCounter EXCEPT
                       ![p] = IF metaKeySet[p].k = "none" THEN @ + 1 ELSE @]
  /\ metaKeySet' = [metaKeySet EXCEPT ![p] = Entry(value)]
  /\ metaKeyGet' = [metaKeyGet EXCEPT ![p] = Entry(value)]
  /\ metaKeyLast' = [metaKeyLast EXCEPT ![p] = Entry(value)]
  /\ UNCHANGED <<metaSetCache, metaFlight, metaDb, metaPending, metaExpected,
                 metaKeyDb, metaKeyPending, metaFound, dispVars, histVars,
                 entityVars>>

\* find(key)
MetaFind(p) ==
  /\ metaKeyGet' =
       IF Falsy(metaKeyGet[p]) /\ ~Falsy(metaKeyDb)
       THEN [metaKeyGet EXCEPT ![p] = metaKeyDb]
       ELSE metaKeyGet
  /\ metaFound' = metaKeyGet'[p]
  /\ UNCHANGED <<metaSetCache, metaFlight, metaDb, metaPending, metaExpected,
                 metaKeySet, metaCounter, metaKeyDb, metaKeyPending,
                 metaKeyLast, dispVars, histVars, entityVars>>

\* get isFlushable()
MetaIsFlushable(p) ==
  metaSetCache[p].k # "none" \/ metaKeySet[p].k # "none"

\* flush(tx) up to its await: a bulkCreate of the entries that are not
\* increment keys and one incrementJsonbCount for the increment key when the
\* accumulated amount is not 0.
MetaFlush(p) ==
  /\ MetaIsFlushable(p)
  /\ ~metaFlight[p]
  /\ metaFlight' = [metaFlight EXCEPT ![p] = TRUE]
  /\ metaPending' =
       IF metaSetCache[p].v # 0
       THEN metaPending \cup {[p |-> p, amount |-> metaSetCache[p].v]}
       ELSE metaPending
  /\ metaKeyPending' =
       IF metaKeySet[p].k # "none"
       THEN metaKeyPending \cup {[p |-> p, value |-> metaKeySet[p].v]}
       ELSE metaKeyPending
  /\ UNCHANGED <<metaSetCache, metaDb, metaExpected, metaKeySet, metaKeyGet,
                 metaCounter, metaKeyDb, metaKeyLast, metaFound, dispVars,
                 histVars, entityVars>>

\* bulkCreate(ops, {updateOnDuplicate: ['key', 'value']}) completes.
MetaBulkCreate(op) ==
  /\ op \in metaKeyPending
  /\ metaKeyDb' = Entry(op.value)
  /\ metaKeyPending' = metaKeyPending \ {op}
  /\ UNCHANGED <<metaSetCache, metaFlight, metaDb, metaPending, metaExpected,
                 metaKeySet, metaKeyGet, metaCounter, metaKeyLast, metaFound,
                 dispVars, histVars, entityVars>>

\* UPDATE ... SET value = (COALESCE(value->0)::int + amount) WHERE key = ...
MetaUpdate(op) ==
  /\ op \in metaPending
  /\ metaDb' = metaDb + op.amount
  /\ metaPending' = metaPending \ {op}
  /\ UNCHANGED <<metaSetCache, metaFlight, metaExpected, keyVars, dispVars,
                 histVars, entityVars>>

\* flush(tx) after its await: clear()
MetaFlushDone(p) ==
  /\ metaFlight[p]
  /\ \A op \in metaPending \cup metaKeyPending : op.p # p
  /\ metaFlight' = [metaFlight EXCEPT ![p] = FALSE]
  /\ metaSetCache' = [metaSetCache EXCEPT ![p] = NoEntry]
  /\ metaKeySet' = [metaKeySet EXCEPT ![p] = NoEntry]
  /\ metaCounter' = [metaCounter EXCEPT ![p] = 0]
  /\ UNCHANGED <<metaDb, metaPending, metaExpected, metaKeyGet, metaKeyDb,
                 metaKeyPending, metaKeyLast, metaFound, dispVars, histVars,
                 entityVars>>

NextCache ==
  \/ \E id \in Ids : \E v \in Values : Set(id, v)
  \/ \E id \in Ids : Remove(id)
  \/ Flush
  \/ \E op \in pendingOps : DbComplete(op)
  \/ NextBlock

SpecCache == Init /\ [][NextCache]_vars

\* The entity cache of a store with historical mode on.
InitHistorical == Init /\ historical

\* Block ranges do not depend on the data written: one value is enough.
NextHistorical ==
  \/ \E id \in Ids : Set(id, 1)
  \/ \E id \in Ids : Remove(id)
  \/ Flush
  \/ \E op \in pendingOps : DbComplete(op)
  \/ NextBlock

SpecHistorical == InitHistorical /\ [][NextHistorical]_vars

\* Bulk updates and removes over the blocks of a run.
NextBulk ==
  \/ \E data \in DataLists : \E hasFields \in BOOLEAN :
       BulkUpdate(data, hasFields)
  \/ \E id \in Ids : Remove(id)
  \/ NextBlock

SpecBulk == InitHistorical /\ [][NextBulk]_vars

\* Processes incrementing the shared key: each calls setIncrement between
\* its flushes and flushes when it has something to flush.
NextIncrement ==
  \/ \E p \in Procs : \E amount \in Amounts :
       ~metaFlight[p] /\ MetaSetIncrement(p, amount)
  \/ \E p \in Procs : MetaFlush(p)
  \/ \E op \in metaPending : MetaUpdate(op)
  \/ \E p \in Procs : MetaFlushDone(p)

SpecIncrement == InitHistorical /\ [][NextIncrement]_vars

\* The process that writes the metadata of the indexer.
Writer == "p1"

\* The metadata of an indexer: the writer sets and finds a key and adds to
\* the increment key at any time, also while its flush is awaiting.
NextMetadata ==
  \/ \E amount \in Amounts : MetaSetIncrement(Writer, amount)
  \/ \E value \in MetaValues : MetaSet(Writer, value)
  \/ MetaFind(Writer)
  \/ MetaFlush(Writer)
  \/ \E op \in metaPending : MetaUpdate(op)
  \/ \E op \in metaKeyPending : MetaBulkCreate(op)
  \/ MetaFlushDone(Writer)

SpecMetadata == InitHistorical /\ [][NextMetadata]_vars

\* The entity cache with its reads by field, within one block.
NextReads ==
  \/ \E id \in Ids : \E v \in Values : Set(id, v)
  \/ \E id \in Ids : Remove(id)
  \/ Flush
  \/ \E op \in pendingOps : DbComplete(op)
  \/ \E v \in Values : \E offset \in Offsets : \E limit \in Limits :
       GetByField(v, offset, limit)
  \/ \E v \in Values : GetOneByField(v)

\* The entity cache with its read by id, within one block.
NextGet ==
  \/ \E id \in Ids : \E v \in Values : Set(id, v)
  \/ \E id \in Ids : Remove(id)
  \/ Flush
  \/ \E op \in pendingOps : DbComplete(op)
  \/ \E id \in Ids : Get(id)
  \/ \E id \in Ids : Evict(id)

\* A store without historical mode: the reads do not look at the mode.
InitPlain == Init /\ ~historical

SpecReads == InitPlain /\ [][NextReads]_vars

SpecGet == InitPlain /\ [][NextGet]_vars

\* ------------------------------------------------------ dispatcher claims

\* C1: with strictly increasing heights and no flushQueue, shutdown or
\* failure, the heights passed to indexBlock are, in order, the heights
\* admitted by enqueueBlocks: at every moment a prefix of the enqueue order.
IndexOrderIsEnqueueOrder == IsPrefix(Heights(indexed), enqueued)

\* Two batches were indexed and a third is being fetched while enqueueBlocks
\* has raised the watermark since the batch was taken.
IndexOrderWitness ==
  /\ Len(indexed) >= 2
  /\ pc = "fetch"
  /\ bufferedHeight < latestBufferedHeight
  /\ queue # <<>>

\* C2 (as claimed): no indexBlock invocation that starts after a flushQueue(h)
\* followed by an enqueueBlocks is for a height above h that was enqueued
\* before the flush and is not among the heights enqueued since.
NoStaleHeightIndexed == \A i \in 1..Len(indexed) : ~indexed[i].stale

\* Every admitted height is indexed, the processed watermark is the last
\* admitted height and the fetch loop has ended.
Drained ==
  /\ pc = "idle"
  /\ ~fetching
  /\ queue = <<>>
  /\ pqTasks = <<>>
  /\ pqRunning = {}
  /\ Heights(indexed) = enqueued
  /\ (enqueued # <<>> => latestProcessedHeight = Last(enqueued))

\* C3: with no flushQueue, shutdown or failure, every admitted height is
\* eventually indexed, latestProcessedHeight eventually equals the last
\* admitted height, and the fetch loop ends with fetching = false; nothing
\* stays stranded in the height queue.
EventuallyDrained == <>[]Drained

\* All MaxHeight heights went through the pipeline, in several calls.
DrainedWitness == Drained /\ Len(enqueued) >= 3 /\ latestProcessedHeight = MaxHeight

\* C4: at most one block task is in progress at any time.
OneTaskAtATime == Cardinality(pqRunning) <= 1

\* A task runs while another waits in the process queue and a later batch is
\* being fetched.
OneTaskWitness == pqRunning # {} /\ pqTasks # <<>> /\ pc = "fetch"

\* C5 (as claimed): latestProcessedHeight <= latestBufferedHeight in every
\* reachable state.
ProcessedNotAboveBuffered == latestProcessedHeight <= latestBufferedHeight

\* C6: once onApplicationShutdown has been called no task is submitted to the
\* process queue, no indexBlock invocation starts, every step of the fetch
\* loop leaves the loop with fetching = false, and no enqueueBlocks starts it.
ShutdownStopsPipeline ==
  [][isShutdown =>
       /\ pqTasks' = pqTasks
       /\ indexed' = indexed
       /\ (pc' # pc => pc' = "idle")
       /\ (pc = "idle" => pc' = "idle")
       /\ (pc' = "idle" => ~fetching')]_vars

\* After shutdown the loop is out, with heights left in the height queue.
ShutdownWitness ==
  /\ isShutdown
  /\ pc = "idle"
  /\ ~fetching
  /\ queue # <<>>
  /\ indexed # <<>>

\* C7 (as claimed): after a block task fails while the dispatcher is not
\* shutting down, no further indexBlock invocation starts.
NoIndexAfterFailure == failedAt # 0 => Len(indexed) < failedAt

\* ------------------------------------------------------ entity cache claims

\* C8 (as claimed): in historical mode, once a flush has completed, the rows
\* of an id that was only ever set start at the height of its first set, each
\* height from there on lies in exactly one row, and exactly one row is
\* open-ended.
HistoricalRangesPartition ==
  \A i \in Ids :
    (historical /\ pendingOps = {} /\ ~removedEver[i] /\ RowsOf(db, i) # {}) =>
      /\ \A r \in RowsOf(db, i) : r.lo >= firstSet[i]
      /\ \A h \in firstSet[i]..MaxBlock :
           Cardinality({r \in RowsOf(db, i) : Contains(r, h)}) = 1
      /\ Cardinality({r \in RowsOf(db, i) : r.hi = Infinity}) = 1

\* C9: when a historical flush has completed, in whatever order its updates
\* and its insert completed, each row present before has its upper bound set
\* to the start of its id's first pending version, or to removedAtBlock, when
\* its range held the height before; the only new rows are the pending
\* versions, none for a removal.
ClosePreviousIsOrderIndependent ==
  (historical /\ pendingOps = {} /\ flushes > 0) => db = expectedDb

\* A second flush closed the live row of "a" for a new version and the live
\* row of "b" for a removal; only "a" got a new row.
ClosePreviousWitness ==
  /\ historical
  /\ pendingOps = {}
  /\ flushes = 2
  /\ removedEver["b"]
  /\ ~removedEver["a"]
  /\ \E ra \in db : ra.id = "a" /\ ra.rid[1] = 0 /\ ra.lo = 1 /\ ra.hi = 2
  /\ \E rn \in db : rn.id = "a" /\ rn.rid[1] = 1 /\ rn.lo = 2 /\ rn.hi = Infinity
  /\ \A rb \in RowsOf(db, "b") : rb.rid[1] = 0 /\ rb.lo = 1 /\ rb.hi = 2
  /\ RowsOf(db, "b") # {}

\* C10 (as claimed): once a set of an id has been flushed and the flush has
\* completed, get(id) on a fresh cache returns the value last set.
RoundTrip ==
  \A i \in Ids :
    (pendingOps = {} /\ setCache[i] = <<>> /\ lastSet[i] # 0) =>
      GetFresh(i) = {lastSet[i]}

\* C11: a remove of an id that removeCache already holds, at whatever height,
\* leaves removeCache, setCache, getCache and flushableRecordCounter as the
\* first remove left them.
RemoveIsIdempotent ==
  [][\A id \in Ids :
       (removeCache[id] # 0 /\ Remove(id)) =>
         UNCHANGED <<removeCache, setCache, getCache, flushableRecordCounter>>]_vars

\* "a" was set and removed at height 1, and the third write of the run, a
\* second remove of "a", left the counter at 2.
RemoveTwiceWitness ==
  /\ flushes = 0
  /\ writes = 3
  /\ flushableRecordCounter = 2
  /\ Len(setCache["a"]) = 1
  /\ setCache["a"][1].endHeight = 1
  /\ removeCache["a"] = 1
  /\ setCache["b"] = <<>>
  /\ removeCache["b"] = 0

\* C12 (as claimed): every entity getByField returns has the value asked
\* for, no id is returned twice, and no returned id has an entry in
\* removeCache when the call is made.
GetByFieldSound ==
  [][\A v \in Values : \A offset \in Offsets : \A limit \in Limits :
       GetByField(v, offset, limit) =>
         LET ret == lastCall'.ret
         IN /\ \A k \in 1..Len(ret) : ret[k].v = v
            /\ \A k \in 1..Len(ret) : removeCache[ret[k].id] = 0
            /\ \A j, k \in 1..Len(ret) : ret[j].id = ret[k].id => j = k]_vars

\* C15 (as claimed): getOneByField with no match in setCache or getCache and
\* no row of the table holding the value returns nothing, raises no error
\* and leaves getCache as it was.
GetOneByFieldMissReturnsNull ==
  [][\A v \in Values :
       (/\ GetOneByField(v)
        /\ GetFromCache(v, TRUE) = {<<>>}
        /\ \A r \in db : r.v # v) =>
         /\ ~lastCall'.threw
         /\ lastCall'.ret = <<>>
         /\ getCache' = getCache]_vars

\* The amounts of a set of adds, summed.
RECURSIVE SumAmounts(_)
SumAmounts(ops) ==
  IF ops = {} THEN 0
  ELSE LET op == CHOOSE o \in ops : TRUE
       IN op.amount + SumAmounts(ops \ {op})

\* What the processes hold that no flush has picked up yet.
RECURSIVE SumUnflushed(_)
SumUnflushed(ps) ==
  IF ps = {} THEN 0
  ELSE LET p == CHOOSE q \in ps : TRUE
       IN (IF metaFlight[p] THEN 0 ELSE metaSetCache[p].v)
          + SumUnflushed(ps \ {p})

\* C13: no amount passed to setIncrement is lost or counted twice: the stored
\* value, the adds in flight and the amounts accumulated by the processes
\* sum to the value at the start plus every amount passed, so once every
\* process has flushed and every add has completed the stored value is
\* prior + a + b + ..., whatever the order in which concurrent flushers'
\* adds completed.
IncrementsAllStored ==
  metaDb + SumAmounts(metaPending) + SumUnflushed(Procs) = metaExpected

\* Two processes have an add in flight at the same time; the one of p1 carries
\* the sum of two setIncrement calls.
IncrementsWitness ==
  /\ [p |-> "p1", amount |-> 3] \in metaPending
  /\ [p |-> "p2", amount |-> 1] \in metaPending
  /\ metaExpected = MaxCount

\* C14: bulkUpdate raises an error exactly when fields is provided, also for
\* the empty list; without fields it leaves setCache and getCache as set
\* would, called for the first entity and then for the second, the counter
\* raised once per entity and removeCache untouched.
BulkUpdateAsSets ==
  [][\A hasFields \in BOOLEAN :
       (lastCall'.op = "bulkUpdate" /\ BulkUpdate(lastCall'.ret, hasFields)) =>
         LET data == lastCall'.ret
             setOne(sc, e) ==
               [sc EXCEPT ![e.id] = SvmSet(@, e.v, blockHeight)]
             getOne(gc, e) == [gc EXCEPT ![e.id] = Entry(e.v)]
             n == Len(data)
         IN /\ lastCall'.threw = hasFields
            /\ ~hasFields =>
                 /\ setCache' =
                      IF n = 0 THEN setCache
                      ELSE IF n = 1 THEN setOne(setCache, data[1])
                      ELSE setOne(setOne(setCache, data[1]), data[2])
                 /\ getCache' =
                      IF n = 0 THEN getCache
                      ELSE IF n = 1 THEN getOne(getCache, data[1])
                      ELSE getOne(getOne(getCache, data[1]), data[2])
                 /\ flushableRecordCounter' = flushableRecordCounter + n
                 /\ removeCache' = removeCache]_vars

\* The last call was a bulkUpdate without fields of two versions of one id,
\* and the cache holds the second.
BulkUpdateWitness ==
  /\ lastCall.op = "bulkUpdate"
  /\ ~lastCall.threw
  /\ Len(lastCall.ret) = 2
  /\ lastCall.ret[1].id = lastCall.ret[2].id
  /\ lastCall.ret[1].v # lastCall.ret[2].v
  /\ getCache[lastCall.ret[2].id] = Entry(lastCall.ret[2].v)
  /\ SvmGetLatest(setCache[lastCall.ret[2].id]).v = lastCall.ret[2].v

\* C16 (as claimed): between flushes flushableRecordCounter never exceeds the
\* number of ids with a pending set or a pending removal.
CounterCountsDistinctIds ==
  flushableRecordCounter <=
    Cardinality({i \in Ids : setCache[i] # <<>> \/ removeCache[i] # 0})

\* C17: the flag is set exactly while the one fetch loop is suspended at an
\* await, so it is false again after every way out of the loop, and an
\* enqueueBlocks call made while it is set starts no second loop: the batch
\* in flight and its snapshot stay as they are and no height leaves the queue.
OneFetchLoop ==
  [][/\ fetching <=> pc # "idle"
     /\ fetching' <=> pc' # "idle"
     /\ (fetching /\ Len(enqueued') > Len(enqueued)) =>
          /\ pc' = pc
          /\ blockNums' = blockNums
          /\ bufferedHeight' = bufferedHeight
          /\ IsPrefix(Heights(queue), Heights(queue'))
          /\ Len(queue') = Len(queue) + Len(enqueued') - Len(enqueued)]_vars

\* Heights enqueued while a fetch was in flight wait in the queue behind it.
OneFetchLoopWitness ==
  /\ pc = "fetch"
  /\ fetching
  /\ queue # <<>>
  /\ Last(queue).h > bufferedHeight
  /\ latestBufferedHeight > bufferedHeight

\* C18: as long as no enqueueBlocks call has followed the last flushQueue,
\* no height above the flush height is passed to indexBlock or waits in the
\* process queue: the batch whose fetch was in flight is dropped by the
\* staleness check, the tasks not yet started by the process-queue flush.
FlushDiscardsBatch ==
  (gen > 0 /\ enqueued = <<>> /\ latestBufferedHeight = lastFlush) =>
    /\ \A i \in 1..Len(indexed) : indexed[i].h <= lastFlush
    /\ \A i \in 1..Len(pqTasks) : pqTasks[i].h <= lastFlush

\* flushQueue was called below the batch whose fetch is in flight, and no
\* enqueueBlocks call has followed.
FlushDiscardsWitness ==
  /\ gen > 0
  /\ enqueued = <<>>
  /\ latestBufferedHeight = lastFlush
  /\ pc = "fetch"
  /\ lastFlush < MinHeight(blockNums)

\* C19: a batch is never larger than batchSize nor than the free space of the
\* process queue when it was taken, so the backlog of the process queue stays
\* within batchSize * 3 once the batch is submitted; the loop does not end
\* while heights wait in the height queue, and with the process queue full it
\* is at its delay, having taken nothing.
BackpressureHolds ==
  /\ Len(pqTasks) <= Capacity
  /\ Len(blockNums) <= BatchSize
  /\ pc = "fetch" => Len(pqTasks) + Len(blockNums) <= Capacity
  /\ queue # <<>> => pc # "idle"
  /\ (Len(pqTasks) = Capacity /\ queue # <<>>) =>
       (pc = "delay" /\ blockNums = <<>>)

\* The process queue is full, a height waits, and the loop is at its delay.
BackpressureWitness ==
  /\ Len(pqTasks) = Capacity
  /\ queue # <<>>
  /\ pc = "delay"
  /\ fetching

\* C20: the completion of an operation a flush issued leaves setCache,
\* removeCache, getCache and the counter as they are, so a set or remove made
\* while the flush is running is still pending when it completes, for the next
\* flush to write; and what a running flush writes is fixed when it is called:
\* its operations are only removed, as they complete, never changed or added to.
FireAndClear ==
  [][/\ (\E op \in pendingOps : DbComplete(op)) =>
          UNCHANGED <<setCache, removeCache, getCache, flushableRecordCounter>>
     /\ pendingOps # {} => pendingOps' \subseteq pendingOps]_vars

\* A flush is running, its insert has completed, and an entity set since the
\* flush was called is pending.
FireAndClearWitness ==
  /\ flushes = 1
  /\ pendingOps # {}
  /\ \A op \in pendingOps : op.type = "update"
  /\ RowsOf(db, "b") # {}
  /\ RowsOf(db, "a") = {}
  /\ setCache["a"] # <<>>
  /\ setCache["b"] = <<>>
  /\ flushableRecordCounter = 1

\* The number of entities getFromCache finds for a value.
CachedCount(value) == Cardinality(SetMatches(value) \cup GetMatches(value))

\* C21 (as claimed): getByField never returns more than limit entities; with
\* c in-memory matches and offset < c < offset + limit it returns the cached
\* slice [offset, c) first and queries the database with the residual limit
\* limit - (c - offset); with c >= offset + limit it sends no query.
GetByFieldWithinLimit ==
  [][\A v \in Values : \A offset \in Offsets : \A limit \in Limits :
       GetByField(v, offset, limit) =>
         LET ret == lastCall'.ret
             c == CachedCount(v)
         IN /\ Len(ret) <= limit
            /\ (offset < c /\ c < offset + limit) =>
                 /\ Len(ret) >= c - offset
                 /\ \A k \in 1..(c - offset) :
                      ret[k].id \in SetMatches(v) \cup GetMatches(v)
                 /\ lastCall'.dbLimit = limit - (c - offset)
            /\ c >= offset + limit => lastCall'.dbLimit = 0]_vars

\* C22 (as claimed): after set(id, v, h), with no remove(id) and no flush
\* since, get(id) returns v and sends no query to the database, whatever was
\* done before the set: a remove(id) in the same flush window or a lookup that
\* cached the absence of the row.
ReadYourWrites ==
  [][\A id \in Ids :
       (Get(id) /\ lastSet[id] # 0 /\ setCache[id] # <<>>) =>
         /\ lastCall'.ret = <<Entity(id, lastSet[id])>>
         /\ lastCall'.dbLimit = 0]_vars

\* C23 (as claimed): a CachedModel holding a pending mutation, an entry in
\* removeCache or a counter above zero, is flushable, so that a removal is
\* written by the next flush also when no set is pending.
PendingIsFlushable ==
  ((\E i \in Ids : removeCache[i] # 0) \/ flushableRecordCounter > 0)
    => IsFlushable

\* C24 (as claimed): without historical mode, once the upsert and the delete
\* of a flush have both completed, in whichever order, an id whose last write
\* was a remove has no row and an id whose last write was a set has exactly
\* one row, holding the value last set.
FlushOrderIndependent ==
  ~historical =>
    \A i \in Ids :
      (pendingOps = {} /\ setCache[i] = <<>> /\ removeCache[i] = 0) =>
        IF lastSet[i] # 0
        THEN \E r \in db : RowsOf(db, i) = {r} /\ r.v = lastSet[i]
        ELSE RowsOf(db, i) = {}

\* C25 (as claimed): a set or setIncrement made while flush is awaiting its
\* database operations is written by that flush or is still in setCache when
\* it has returned: with no flush awaiting and no operation outstanding, the
\* stored count and the amount held in setCache sum to the start value plus
\* every amount passed, and the value last set is the stored one or the one
\* held in setCache.
NoMetadataWriteLost ==
  (~metaFlight[Writer] /\ metaPending = {} /\ metaKeyPending = {}) =>
    /\ metaDb + metaSetCache[Writer].v = metaExpected
    /\ metaKeyLast[Writer].k = "value" =>
         (metaKeyDb = metaKeyLast[Writer] \/ metaKeySet[Writer] = metaKeyLast[Writer])

\* C26 (as claimed): after set(key, value), find(key) returns value, for
\* every value, 0, false and the empty string included, before and after a
\* flush, until the key is set again; the stored value never takes its place.
MetaReadYourWrites ==
  [][(MetaFind(Writer) /\ metaKeyLast[Writer].k = "value") =>
       /\ metaFound' = metaKeyLast[Writer]
       /\ metaKeyGet'[Writer] = metaKeyLast[Writer]]_vars

\* C27 (as claimed): a bulkUpdate that raises its error, fields being
\* provided, leaves setCache, getCache, removeCache and the counter as they
\* were before the call.
RejectedBulkUpdateHasNoEffect ==
  [][(lastCall'.op = "bulkUpdate" /\ BulkUpdate(lastCall'.ret, TRUE)) =>
       /\ lastCall'.threw
       /\ UNCHANGED <<setCache, getCache, removeCache,
                      flushableRecordCounter>>]_vars

====
